---- MODULE Spec2Model ----
(***************************************************************************)
(* Webhook authentication and order-lifecycle subsystem of the             *)
(* Agroforestree-Sympla middleware: WebhookHandler (processWebhook and its *)
(* event handlers), SignatureValidator, TokenGenerator and the             *)
(* AgroforestreeClient gateway call, as a state machine.                   *)
(*                                                                         *)
(* Strings are sequences of one-character strings where the code inspects  *)
(* their characters (signature headers, hex digests), and sequences of     *)
(* pieces where the code only concatenates them (donor names).             *)
(***************************************************************************)
EXTENDS Integers, Sequences, FiniteSets, TLC

\* ------------------------------------------------------------------------
\* Bounds of the model
\* ------------------------------------------------------------------------
MaxReqs == 2        \* webhook requests handled in one behaviour
MaxTime == 1        \* the clock runs over 0..MaxTime
DigestBytes == 2    \* bytes of a digest (the 32 of SHA-256, shortened)

\* ------------------------------------------------------------------------
\* Values
\* ------------------------------------------------------------------------
Undefined == "undefined"   \* JavaScript's undefined, where a string is expected
NoHeader == <<Undefined>>  \* a request header that is absent
NoData == [absent |-> TRUE] \* a payload without data
NoRef == 0                 \* Map.get() found nothing

WebhookSecret == "test-webhook-secret"
OtherSecret == "wrong-secret"
Secrets == <<WebhookSecret, OtherSecret>>

OrderIds == {"SPL-1", "SPL-2"}
Keys == OrderIds \cup {Undefined}

DefaultApiUrl == <<"https://", "api.agroforestree.com">>
CustomApiUrl == <<"http://", "localhost:4000">>

Min(a, b) == IF a <= b THEN a ELSE b

RECURSIVE Pow(_, _)
Pow(b, e) == IF e = 0 THEN 1 ELSE b * Pow(b, e - 1)

\* ------------------------------------------------------------------------
\* Inbound events (SymplaWebhookPayload, SymplaOrderData)
\* ------------------------------------------------------------------------
OrderData(o, v) ==
  [order_identifier |-> o,
   event_id |-> IF v = 1 THEN "EVT-1" ELSE "EVT-2",
   event_name |-> IF v = 1 THEN "Show" ELSE "Feira",
   total_order_amount |-> IF v = 1 THEN "100.00" ELSE "250.00",
   buyer_first_name |-> IF v = 1 THEN "Joao" ELSE "Ana",
   buyer_last_name |-> IF v = 1 THEN "Silva" ELSE "Souza",
   buyer_email |-> IF v = 1 THEN "joao@example.com" ELSE "ana@example.com"]

\* data: {} - an object that has none of the fields
EmptyData ==
  [order_identifier |-> Undefined, event_id |-> Undefined,
   event_name |-> Undefined, total_order_amount |-> Undefined,
   buyer_first_name |-> Undefined, buyer_last_name |-> Undefined,
   buyer_email |-> Undefined]

Event(kind, data) == [text |-> "object", event |-> kind, data |-> data]

\* SymplaWebhookPayload.timestamp, a string: [iso |-> ms] is the ISO-8601
\* text of the instant ms of the clock, [text |-> s] a text that is not a date
NoTimestamp == [absent |-> TRUE]
FreshTimestamp == [iso |-> 0]
StaleTimestamp == [iso |-> 0 - 10 * 60 * 1000]

\* the payload with its optional timestamp
Stamped(payload, timestamp) ==
  [text |-> payload.text, event |-> payload.event, data |-> payload.data,
   timestamp |-> timestamp]

TimestampOf(body) ==
  IF "timestamp" \in DOMAIN body THEN body.timestamp ELSE NoTimestamp

\* The request bodies of the model: a body that is not JSON, the JSON text
\* null, and payloads of every event kind, without data and with the data of
\* an order; an order.approved also with data: {}. The cancellation and the
\* refund of SPL-1 carry other data than its approval. The approval of SPL-2
\* carries the timestamp of instant 0, the refund of SPL-1 one of ten
\* minutes before; the other payloads have no timestamp.
Bodies ==
  <<[text |-> "invalid-json"],
    [text |-> "null"],
    Event("order.approved", NoData),
    Event("order.approved", EmptyData),
    Event("order.approved", OrderData("SPL-1", 1)),
    Stamped(Event("order.approved", OrderData("SPL-2", 1)), FreshTimestamp),
    Event("order.cancelled", NoData),
    Event("order.cancelled", OrderData("SPL-1", 2)),
    Event("order.refunded", NoData),
    Stamped(Event("order.refunded", OrderData("SPL-1", 2)), StaleTimestamp),
    Event("order.created", NoData),
    Event("order.created", OrderData("SPL-1", 1)),
    Event("order.updated", OrderData("SPL-1", 1))>>

BodyIdx == 1..Len(Bodies)

\* ------------------------------------------------------------------------
\* Characters and hexadecimal
\* ------------------------------------------------------------------------
HexLower ==
  <<"0", "1", "2", "3", "4", "5", "6", "7", "8", "9",
    "a", "b", "c", "d", "e", "f">>
HexUpper ==
  <<"0", "1", "2", "3", "4", "5", "6", "7", "8", "9",
    "A", "B", "C", "D", "E", "F">>

IsHex(c) == \E i \in 1..16 : HexLower[i] = c \/ HexUpper[i] = c
HexVal(c) == (CHOOSE i \in 1..16 : HexLower[i] = c \/ HexUpper[i] = c) - 1

IsSpace(c) == c \in {" ", "\t", "\n"}

ToLowerChar(c) ==
  IF \E i \in 11..16 : HexUpper[i] = c
    THEN HexLower[CHOOSE i \in 11..16 : HexUpper[i] = c]
    ELSE IF c = "S" THEN "s" ELSE IF c = "H" THEN "h" ELSE c

Sha256Prefix == <<"s", "h", "a", "2", "5", "6", "=">>

\* signature.replace(/^sha256=/i, '')
StripPrefix(s) ==
  IF Len(s) >= 7 /\ [i \in 1..7 |-> ToLowerChar(s[i])] = Sha256Prefix
    THEN SubSeq(s, 8, Len(s))
    ELSE s

\* String.prototype.trim()
RECURSIVE TrimLeft(_)
TrimLeft(s) ==
  IF s # <<>> /\ IsSpace(Head(s)) THEN TrimLeft(Tail(s)) ELSE s

RECURSIVE TrimRight(_)
TrimRight(s) ==
  IF s # <<>> /\ IsSpace(s[Len(s)])
    THEN TrimRight(SubSeq(s, 1, Len(s) - 1))
    ELSE s

Trim(s) == TrimRight(TrimLeft(s))

\* Buffer.from(s, 'hex'): decodes pairs of hex digits and stops at the first
\* pair that is not two hex digits; a trailing single character is dropped.
RECURSIVE BufferFromHex(_)
BufferFromHex(s) ==
  IF Len(s) >= 2 /\ IsHex(s[1]) /\ IsHex(s[2])
    THEN <<16 * HexVal(s[1]) + HexVal(s[2])>> \o
         BufferFromHex(SubSeq(s, 3, Len(s)))
    ELSE <<>>

\* hmac.digest('hex'): the digest as 2 * DigestBytes lowercase hex digits
RECURSIVE ToHex(_, _)
ToHex(n, digits) ==
  IF digits = 0 THEN <<>>
  ELSE ToHex(n \div 16, digits - 1) \o <<HexLower[(n % 16) + 1]>>

SecretIdx(secret) == CHOOSE i \in 1..Len(Secrets) : Secrets[i] = secret

\* crypto.createHmac('sha256', secret).update(payload).digest('hex'), with the
\* payload given by its index in Bodies. HMAC-SHA256 is modelled as an
\* injective map of (secret, payload) into the digests.
HmacHex(secret, b) ==
  ToHex((((SecretIdx(secret) - 1) * Len(Bodies) + b) * 2731 + 43981)
          % Pow(16, 2 * DigestBytes),
        2 * DigestBytes)

\* crypto.timingSafeEqual(a, b) on buffers of equal length
TimingSafeEqual(a, b) == a = b

\* a validateSignature that compares the lengths of the digests only
validateSignature_LengthOnly(secret, b, signature) ==
  IF signature = NoHeader \/ signature = <<>> THEN FALSE
  ELSE Len(BufferFromHex(Trim(StripPrefix(signature)))) =
         Len(BufferFromHex(HmacHex(secret, b)))

\* SignatureValidator.validateSignature(payload, signature)
validateSignature(secret, b, signature) ==
  IF signature = NoHeader \/ signature = <<>> THEN FALSE
  ELSE
    LET receivedSignature == Trim(StripPrefix(signature))
        expectedSignature == HmacHex(secret, b)
        receivedBuffer == BufferFromHex(receivedSignature)
        expectedBuffer == BufferFromHex(expectedSignature)
    IN  IF Len(receivedBuffer) # Len(expectedBuffer) THEN FALSE
        ELSE TimingSafeEqual(receivedBuffer, expectedBuffer)

\* ------------------------------------------------------------------------
\* SignatureValidator.validateTimestamp(timestamp, toleranceMinutes), with
\* the reading of Date.now() as currentTime
\* ------------------------------------------------------------------------
DefaultToleranceMinutes == 5

\* new Date(timestamp).getTime() is a number, not NaN
DateParses(timestamp) == "iso" \in DOMAIN timestamp

Abs(x) == IF x < 0 THEN 0 - x ELSE x

\* a validateTimestamp without Math.abs
validateTimestamp_OneSided(timestamp, toleranceMinutes, currentTime) ==
  LET toleranceMs == toleranceMinutes * 60 * 1000
  IN  IF ~DateParses(timestamp) THEN FALSE
      ELSE currentTime - timestamp.iso <= toleranceMs

\* a comparison with NaN is false
validateTimestamp(timestamp, toleranceMinutes, currentTime) ==
  LET toleranceMs == toleranceMinutes * 60 * 1000
  IN  IF ~DateParses(timestamp) THEN FALSE
      ELSE Abs(currentTime - timestamp.iso) <= toleranceMs

\* ------------------------------------------------------------------------
\* The requests of the model: every body correctly signed (sha256=<digest>),
\* a body without signature header and a body signed with another secret.
\* ------------------------------------------------------------------------
SomeOrigin == <<"https://", "sympla-simulator.vercel.app">>

ApprovedBody ==
  CHOOSE b \in BodyIdx : Bodies[b] = Event("order.approved", OrderData("SPL-1", 1))
CancelledBody ==
  CHOOSE b \in BodyIdx : Bodies[b] = Event("order.cancelled", OrderData("SPL-1", 2))

Signed(b) ==
  [body |-> b, signature |-> Sha256Prefix \o HmacHex(WebhookSecret, b),
   origin |-> NoHeader]

Requests ==
  {Signed(b) : b \in BodyIdx} \cup
  {[body |-> ApprovedBody, signature |-> NoHeader, origin |-> NoHeader],
   [body |-> CancelledBody,
    signature |-> Sha256Prefix \o HmacHex(OtherSecret, CancelledBody),
    origin |-> SomeOrigin]}

\* ------------------------------------------------------------------------
\* TokenGenerator.generateDonationToken
\* ------------------------------------------------------------------------
TokenTTL == 24 * 60 * 60 * 1000

JSONStringify(payload) == [json |-> payload]
Base64UrlEncode(text) == [b64 |-> text]

\* TokenGenerator.signPayload: HMAC-SHA256 of the payload segment, base64url
signPayload(secret, payload) == [hmac |-> secret, msg |-> payload]

\* generateDonationToken that puts the identifiers in each other's field
generateDonationToken_Swapped(secret, orderId, eventId, t1, t2) ==
  LET payload == [orderId |-> eventId, eventId |-> orderId,
                  timestamp |-> t1, exp |-> t2 + TokenTTL]
      encodedPayload == Base64UrlEncode(JSONStringify(payload))
  IN  <<encodedPayload, signPayload(secret, encodedPayload)>>

\* generateDonationToken that leaves the event out of the payload
generateDonationToken_OrderOnly(secret, orderId, eventId, t1, t2) ==
  LET payload == [orderId |-> orderId, eventId |-> "",
                  timestamp |-> t1, exp |-> t2 + TokenTTL]
      encodedPayload == Base64UrlEncode(JSONStringify(payload))
  IN  <<encodedPayload, signPayload(secret, encodedPayload)>>

\* A token string is the sequence of its '.'-separated segments; '' is <<>>.
\* t1 and t2 are the two readings of Date.now(), of lines 24 and 25.
generateDonationToken(secret, orderId, eventId, t1, t2) ==
  LET payload == [orderId |-> orderId, eventId |-> eventId,
                  timestamp |-> t1, exp |-> t2 + TokenTTL]
      encodedPayload == Base64UrlEncode(JSONStringify(payload))
  IN  <<encodedPayload, signPayload(secret, encodedPayload)>>

\* `token_${Date.now()}`: one segment, no separator
PlaceholderToken(t) == <<[placeholder |-> t]>>

\* ------------------------------------------------------------------------
\* State
\* ------------------------------------------------------------------------
VARIABLES
  now,               \* the clock (Date.now(), new Date())
  apiUrl,            \* AgroforestreeClient's baseURL
  donationAttempts,  \* WebhookHandler.donationAttempts: key -> object or NoRef
  heap,              \* the DonationAttempt objects, in order of creation
  reqs,              \* the webhook requests: position, payload, response
  call               \* a call of a SignatureValidator method made on its own

vars == <<now, apiUrl, donationAttempts, heap, reqs, call>>

Reqs == 1..MaxReqs

NoPayload == [absent |-> TRUE]
NoInput == [absent |-> TRUE]
NoCall == [fn |-> "none"]

\* prev and alone are history: the object stored for the order when the
\* request arrived, and whether no other request for the same key was in
\* flight or arrived while this one was in flight
IdleReq ==
  [pc |-> "idle", input |-> NoInput, auth |-> FALSE, payload |-> NoPayload,
   ref |-> NoRef,
   gw |-> [state |-> "none"], calls |-> 0, resp |-> <<>>,
   prev |-> NoRef, alone |-> FALSE]

Init ==
  /\ now = 0
  /\ apiUrl \in {DefaultApiUrl, CustomApiUrl}
  /\ donationAttempts = [k \in Keys |-> NoRef]
  /\ heap = <<>>
  /\ reqs = [r \in Reqs |-> IdleReq]
  /\ call = NoCall

\* ------------------------------------------------------------------------
\* WebhookHandler
\* ------------------------------------------------------------------------
\* JSON.parse(req.body.toString()): "throws" for a body that is not JSON
JSONParse(b) ==
  IF Bodies[b].text = "invalid-json" THEN "throws"
  ELSE IF Bodies[b].text = "null" THEN "null"
  ELSE "object"

\* a switch that sends order.created to the cancellation handler
Route_CreatedCancels(event) ==
  CASE event = "order.approved" -> "handleOrderApproved"
    [] event = "order.cancelled" -> "handleOrderCancelled"
    [] event = "order.refunded" -> "handleOrderRefunded"
    [] event = "order.created" -> "handleOrderCancelled"
    [] OTHER -> "default"

\* a switch that sends order.created to the approval handler
Route_CreatedApproves(event) ==
  CASE event = "order.approved" -> "handleOrderApproved"
    [] event = "order.cancelled" -> "handleOrderCancelled"
    [] event = "order.refunded" -> "handleOrderRefunded"
    [] event = "order.created" -> "handleOrderApproved"
    [] OTHER -> "default"

\* the switch of processWebhook
Route(event) ==
  CASE event = "order.approved" -> "handleOrderApproved"
    [] event = "order.cancelled" -> "handleOrderCancelled"
    [] event = "order.refunded" -> "handleOrderRefunded"
    [] event = "order.created" -> "log"
    [] OTHER -> "default"

\* every attempt stored under one key
StoreKey_Single(orderData) == "SPL-1"

\* the key of this.donationAttempts.set(orderData.order_identifier, ...)
StoreKey(orderData) == orderData.order_identifier

\* `${orderData.buyer_first_name} ${orderData.buyer_last_name}`
FullName(orderData) ==
  <<orderData.buyer_first_name, " ", orderData.buyer_last_name>>

\* the literal of handleOrderApproved copied with its initial status
NewAttempt_Pending(id, orderData, status, token, created, updated) ==
  [id |-> id,
   sympla_order_id |-> orderData.order_identifier,
   sympla_event_id |-> orderData.event_id,
   status |-> "PENDING_USER_ACTION",
   donation_token |-> token,
   created_at |-> created,
   updated_at |-> updated,
   donor_name |-> FullName(orderData),
   donor_email |-> orderData.buyer_email,
   event_name |-> orderData.event_name,
   order_amount |-> orderData.total_order_amount]

NewAttempt(id, orderData, status, token, created, updated) ==
  [id |-> id,
   sympla_order_id |-> orderData.order_identifier,
   sympla_event_id |-> orderData.event_id,
   status |-> status,
   donation_token |-> token,
   created_at |-> created,
   updated_at |-> updated,
   donor_name |-> FullName(orderData),
   donor_email |-> orderData.buyer_email,
   event_name |-> orderData.event_name,
   order_amount |-> orderData.total_order_amount]

\* the request that arrives next: requests are numbered in order of arrival
Arrives(r) ==
  /\ reqs[r].pc = "idle"
  /\ \A q \in Reqs : q < r => reqs[q].pc # "idle"

Response401(signature, origin) ==
  [status |-> 401,
   body |-> [error |-> "Invalid signature", received |-> signature,
             origin |-> origin]]

\* the catch block answering with the status of the acknowledgment
Response500_As200 ==
  [status |-> 200, body |-> [error |-> "Internal server error"]]

Response500 ==
  [status |-> 500, body |-> [error |-> "Internal server error"]]

\* the acknowledgment sent with the status of the catch block
Response200_As500(t) ==
  [status |-> 500,
   body |-> [status |-> "success",
             message |-> "Webhook processado com sucesso",
             timestamp |-> t]]

Response200(t) ==
  [status |-> 200,
   body |-> [status |-> "success",
             message |-> "Webhook processado com sucesso",
             timestamp |-> t]]

\* the requests that pass this.signatureValidator.validateSignature
ValidRequests ==
  {rq \in Requests : validateSignature(WebhookSecret, rq.body, rq.signature)}

Authenticated(rq) == rq \in ValidRequests

\* a request that reached the dispatch of processWebhook
Arrived(r, rq, payload) ==
  [reqs[r] EXCEPT !.input = rq, !.auth = TRUE, !.payload = payload]

\* a handler that sends its response twice
Answer_Twice(rec, response) ==
  [rec EXCEPT !.pc = "done", !.resp = @ \o <<response, response>>]

Answer(rec, response) ==
  [rec EXCEPT !.pc = "done", !.resp = Append(@, response)]

InFlightFor(q, key) ==
  /\ reqs[q].pc = "awaitGateway"
  /\ StoreKey(reqs[q].payload.data) = key

\* the other requests, when a request for key arrives
Others(r, key) ==
  [q \in Reqs \ {r} |->
     IF InFlightFor(q, key) THEN [reqs[q] EXCEPT !.alone = FALSE] ELSE reqs[q]]

\* processWebhook, signature rejected: 401 and return
RejectSignature(r, rq) ==
  /\ Arrives(r)
  /\ ~Authenticated(rq)
  /\ reqs' = [reqs EXCEPT ![r] =
       Answer([@ EXCEPT !.input = rq], Response401(rq.signature, rq.origin))]
  /\ UNCHANGED <<now, apiUrl, donationAttempts, heap, call>>

\* processWebhook, JSON.parse throws, or payload is null and payload.event
\* throws: the catch block answers 500
ParseFails(r, rq) ==
  /\ Arrives(r)
  /\ Authenticated(rq)
  /\ JSONParse(rq.body) # "object"
  /\ reqs' = [reqs EXCEPT ![r] = Answer(Arrived(r, rq, NoPayload), Response500)]
  /\ UNCHANGED <<now, apiUrl, donationAttempts, heap, call>>

Parsed(r, rq) ==
  /\ Arrives(r)
  /\ Authenticated(rq)
  /\ JSONParse(rq.body) = "object"

PayloadOf(rq) ==
  [event |-> Bodies[rq.body].event, data |-> Bodies[rq.body].data,
   timestamp |-> TimestampOf(Bodies[rq.body])]

\* case 'order.created': logs payload.data.order_identifier (a TypeError when
\* data is missing), then answers 200; default: answers 200
LogOnly(r, rq) ==
  /\ Parsed(r, rq)
  /\ Route(PayloadOf(rq).event) \in {"log", "default"}
  /\ reqs' = [reqs EXCEPT ![r] =
       Answer(Arrived(r, rq, PayloadOf(rq)),
              IF Route(PayloadOf(rq).event) = "log" /\ PayloadOf(rq).data = NoData
                THEN Response500 ELSE Response200(now))]
  /\ UNCHANGED <<now, apiUrl, donationAttempts, heap, call>>

\* a handler called with orderData undefined throws at its first line; the
\* rejection reaches processWebhook's catch block, which answers 500
HandlerThrows(r, rq) ==
  /\ Parsed(r, rq)
  /\ Route(PayloadOf(rq).event) \in
       {"handleOrderApproved", "handleOrderCancelled", "handleOrderRefunded"}
  /\ PayloadOf(rq).data = NoData
  /\ reqs' = [reqs EXCEPT ![r] = Answer(Arrived(r, rq, PayloadOf(rq)), Response500)]
  /\ UNCHANGED <<now, apiUrl, donationAttempts, heap, call>>

\* a donationRequest whose value is the amount of the order
DonationRequest_OrderAmount(orderData) ==
  [sourcePlatform |-> "Sympla",
   sourceOrderId |-> orderData.order_identifier,
   sourceEventId |-> orderData.event_id,
   donorName |-> FullName(orderData),
   donorEmail |-> orderData.buyer_email,
   donationValue |-> orderData.total_order_amount,
   campaignId |-> "sympla-geral-2024"]

\* the donationRequest of createDonationWithConsent
DonationRequest(orderData) ==
  [sourcePlatform |-> "Sympla",
   sourceOrderId |-> orderData.order_identifier,
   sourceEventId |-> orderData.event_id,
   donorName |-> FullName(orderData),
   donorEmail |-> orderData.buyer_email,
   donationValue |-> "5.00",
   campaignId |-> "sympla-geral-2024"]

\* a handleOrderApproved that does not await createDonationWithConsent: the
\* acknowledgment is sent while the gateway call is pending
HandleOrderApproved_NoAwait(r, rq) ==
  /\ Parsed(r, rq)
  /\ Route(PayloadOf(rq).event) = "handleOrderApproved"
  /\ PayloadOf(rq).data # NoData
  /\ LET orderData == PayloadOf(rq).data
         id == Len(heap) + 1
         donationAttempt ==
           NewAttempt(id, orderData, "PENDING_USER_ACTION",
                      generateDonationToken(WebhookSecret,
                        orderData.order_identifier, orderData.event_id,
                        now, now),
                      now, now)
     IN  /\ heap' = Append(heap, donationAttempt)
         /\ donationAttempts' =
              [donationAttempts EXCEPT ![StoreKey(orderData)] = id]
         /\ reqs' = [q \in Reqs |->
              IF q # r THEN Others(r, StoreKey(orderData))[q]
              ELSE [Answer(Arrived(r, rq, PayloadOf(rq)), Response200(now))
                    EXCEPT
                      !.ref = id, !.calls = @ + 1,
                      !.gw = [state |-> "pending",
                              request |-> DonationRequest(orderData)],
                      !.prev = donationAttempts[StoreKey(orderData)],
                      !.alone = \A p \in Reqs :
                                  ~InFlightFor(p, StoreKey(orderData))]]
  /\ UNCHANGED <<now, apiUrl, call>>

\* handleOrderApproved up to the await of createDonation: creates the attempt
\* in PENDING_USER_ACTION, stores it and calls the gateway. The step runs
\* without suspension: all its readings of the clock return now.
HandleOrderApproved(r, rq) ==
  /\ Parsed(r, rq)
  /\ Route(PayloadOf(rq).event) = "handleOrderApproved"
  /\ PayloadOf(rq).data # NoData
  /\ LET orderData == PayloadOf(rq).data
         id == Len(heap) + 1
         donationAttempt ==
           NewAttempt(id, orderData, "PENDING_USER_ACTION",
                      generateDonationToken(WebhookSecret,
                        orderData.order_identifier, orderData.event_id,
                        now, now),
                      now, now)
     IN  /\ heap' = Append(heap, donationAttempt)
         /\ donationAttempts' =
              [donationAttempts EXCEPT ![StoreKey(orderData)] = id]
         /\ reqs' = [q \in Reqs |->
              IF q # r THEN Others(r, StoreKey(orderData))[q]
              ELSE [Arrived(r, rq, PayloadOf(rq)) EXCEPT
                      !.pc = "awaitGateway", !.ref = id, !.calls = @ + 1,
                      !.gw = [state |-> "pending",
                              request |-> DonationRequest(orderData)],
                      !.prev = donationAttempts[StoreKey(orderData)],
                      !.alone = \A p \in Reqs :
                                  ~InFlightFor(p, StoreKey(orderData))]]
  /\ UNCHANGED <<now, apiUrl, call>>

\* a client that never simulates the API
IsSimulated_Never(url) == FALSE

\* this.client.defaults.baseURL?.includes('api.agroforestree.com')
IsSimulated(url) == \E i \in 1..Len(url) : url[i] = "api.agroforestree.com"

SimulatedIds == <<"AGF-0", "AGF-1", "AGF-2", "AGF-3", "AGF-4">>
GatewayIds == {"donation-123"}

\* what makes this.client.post fail: an error status, no answer, the 10 s
\* timeout
FailureCauses == {"response", "request", "timeout"}

\* the catch block of createDonation: throws an Error whose message (here
\* without its accents) ends with the cause
Rethrown(cause) ==
  [ok |-> FALSE, posted |-> TRUE,
   error |-> <<"Falha na criacao de doacao: ", cause>>]

\* AgroforestreeClient.createDonation: the simulated API always answers; the
\* real one answers or fails. posted tells whether this.client.post was
\* called.
CreateDonationOutcomes(url) ==
  IF IsSimulated(url)
    THEN {[ok |-> TRUE, posted |-> FALSE, donationId |-> SimulatedIds[now + 1],
           status |-> "PENDING_PLANTING"]}
    ELSE {[ok |-> TRUE, posted |-> TRUE, donationId |-> d,
           status |-> "PENDING_PLANTING"] : d \in GatewayIds} \cup
         {Rethrown(cause) : cause \in FailureCauses}

\* the two statuses exchanged
GatewayStatus_Swapped(ok) == IF ok THEN "DECLINED" ELSE "COMPLETED"

\* the status createDonationWithConsent writes after the gateway call
GatewayStatus(ok) == IF ok THEN "COMPLETED" ELSE "DECLINED"

\* a createDonationWithConsent that calls the gateway a second time when the
\* first call fails
GatewayReturns_Retry(r, outcome) ==
  /\ reqs[r].pc = "awaitGateway"
  /\ outcome \in CreateDonationOutcomes(apiUrl)
  /\ IF ~outcome.ok /\ reqs[r].calls < 2
       THEN /\ reqs' = [reqs EXCEPT ![r].calls = @ + 1]
            /\ UNCHANGED <<donationAttempts, heap>>
       ELSE /\ heap' = [heap EXCEPT ![reqs[r].ref] =
                 [@ EXCEPT !.status = GatewayStatus(outcome.ok),
                           !.updated_at = now]]
            /\ donationAttempts' =
                 [donationAttempts EXCEPT
                    ![StoreKey(reqs[r].payload.data)] = reqs[r].ref]
            /\ reqs' = [reqs EXCEPT ![r] =
                 Answer([@ EXCEPT !.gw =
                           [state |-> IF outcome.ok THEN "ok" ELSE "failed",
                            request |-> reqs[r].gw.request]],
                        Response200(now))]
  /\ UNCHANGED <<now, apiUrl, call>>

\* a createDonationWithConsent without its catch block: the Error thrown by
\* createDonation reaches the catch block of processWebhook
GatewayReturns_Propagates(r, outcome) ==
  /\ reqs[r].pc = "awaitGateway"
  /\ outcome \in CreateDonationOutcomes(apiUrl)
  /\ IF outcome.ok
       THEN /\ heap' = [heap EXCEPT ![reqs[r].ref] =
                 [@ EXCEPT !.status = "COMPLETED", !.updated_at = now]]
            /\ reqs' = [reqs EXCEPT ![r] =
                 Answer([@ EXCEPT !.gw = [state |-> "ok",
                                          request |-> reqs[r].gw.request,
                                          outcome |-> outcome]],
                        Response200(now))]
       ELSE /\ heap' = heap
            /\ reqs' = [reqs EXCEPT ![r] =
                 Answer([@ EXCEPT !.gw = [state |-> "failed",
                                          request |-> reqs[r].gw.request]],
                        Response500)]
  /\ UNCHANGED <<now, apiUrl, donationAttempts, call>>

\* a createDonationWithConsent that writes created_at along with updated_at
GatewayReturns_Recreated(r, outcome) ==
  /\ reqs[r].pc = "awaitGateway"
  /\ outcome \in CreateDonationOutcomes(apiUrl)
  /\ heap' = [heap EXCEPT ![reqs[r].ref] =
       [@ EXCEPT !.status = GatewayStatus(outcome.ok), !.created_at = now,
                 !.updated_at = now]]
  /\ donationAttempts' =
       [donationAttempts EXCEPT ![StoreKey(reqs[r].payload.data)] = reqs[r].ref]
  /\ reqs' = [reqs EXCEPT ![r] =
       Answer([@ EXCEPT !.gw =
                 IF outcome.ok
                   THEN [state |-> "ok", request |-> reqs[r].gw.request,
                         outcome |-> outcome]
                   ELSE [state |-> "failed", request |-> reqs[r].gw.request]],
              Response200(now))]
  /\ UNCHANGED <<now, apiUrl, call>>

\* createDonationWithConsent after the await: the try block's or the catch
\* block's update of the attempt created by this request; handleOrderApproved
\* returns and processWebhook answers 200. The response of the gateway is
\* kept in gw.outcome as history; the catch block only logs its error.
GatewayReturns(r, outcome) ==
  /\ reqs[r].pc = "awaitGateway"
  /\ outcome \in CreateDonationOutcomes(apiUrl)
  /\ heap' = [heap EXCEPT ![reqs[r].ref] =
       [@ EXCEPT !.status = GatewayStatus(outcome.ok), !.updated_at = now]]
  /\ donationAttempts' =
       [donationAttempts EXCEPT ![StoreKey(reqs[r].payload.data)] = reqs[r].ref]
  /\ reqs' = [reqs EXCEPT ![r] =
       Answer([@ EXCEPT !.gw =
                 IF outcome.ok
                   THEN [state |-> "ok", request |-> reqs[r].gw.request,
                         outcome |-> outcome]
                   ELSE [state |-> "failed", request |-> reqs[r].gw.request]],
              Response200(now))]
  /\ UNCHANGED <<now, apiUrl, call>>

\* handleOrderCancelled (status CANCELLED) and handleOrderRefunded (status
\* REFUNDED): update the stored attempt, or create one; processWebhook
\* answers 200
TerminalStatus(route) ==
  IF route = "handleOrderCancelled" THEN "CANCELLED" ELSE "REFUNDED"

\* cancel and refund handlers that copy the data of their event into the
\* attempt they find
HandleOrderEnded_AppliesData(r, rq) ==
  /\ Parsed(r, rq)
  /\ Route(PayloadOf(rq).event) \in {"handleOrderCancelled", "handleOrderRefunded"}
  /\ PayloadOf(rq).data # NoData
  /\ LET orderData == PayloadOf(rq).data
         route == Route(PayloadOf(rq).event)
         existingAttempt == donationAttempts[StoreKey(orderData)]
         id == Len(heap) + 1
     IN  IF existingAttempt # NoRef
           THEN /\ heap' = [heap EXCEPT ![existingAttempt] =
                     NewAttempt(@.id, orderData, TerminalStatus(route),
                                @.donation_token, @.created_at, now)]
                /\ donationAttempts' =
                     [donationAttempts EXCEPT
                        ![StoreKey(orderData)] = existingAttempt]
                /\ reqs' = [q \in Reqs |->
                     IF q # r THEN Others(r, StoreKey(orderData))[q]
                     ELSE Answer([Arrived(r, rq, PayloadOf(rq)) EXCEPT
                                    !.ref = existingAttempt],
                                 Response200(now))]
           ELSE /\ heap' = Append(heap,
                     IF route = "handleOrderCancelled"
                       THEN NewAttempt(id, orderData, "CANCELLED", <<>>,
                                       now, now)
                       ELSE NewAttempt(id, orderData, "REFUNDED",
                                       PlaceholderToken(now), now, now))
                /\ donationAttempts' =
                     [donationAttempts EXCEPT ![StoreKey(orderData)] = id]
                /\ reqs' = [q \in Reqs |->
                     IF q # r THEN Others(r, StoreKey(orderData))[q]
                     ELSE Answer([Arrived(r, rq, PayloadOf(rq)) EXCEPT !.ref = id],
                                 Response200(now))]
  /\ UNCHANGED <<now, apiUrl, call>>

HandleOrderEnded(r, rq) ==
  /\ Parsed(r, rq)
  /\ Route(PayloadOf(rq).event) \in {"handleOrderCancelled", "handleOrderRefunded"}
  /\ PayloadOf(rq).data # NoData
  /\ LET orderData == PayloadOf(rq).data
         route == Route(PayloadOf(rq).event)
         existingAttempt == donationAttempts[StoreKey(orderData)]
         id == Len(heap) + 1
     IN  IF existingAttempt # NoRef
           THEN /\ heap' = [heap EXCEPT ![existingAttempt] =
                     [@ EXCEPT !.status = TerminalStatus(route),
                               !.updated_at = now]]
                /\ donationAttempts' =
                     [donationAttempts EXCEPT
                        ![StoreKey(orderData)] = existingAttempt]
                /\ reqs' = [q \in Reqs |->
                     IF q # r THEN Others(r, StoreKey(orderData))[q]
                     ELSE Answer([Arrived(r, rq, PayloadOf(rq)) EXCEPT
                                    !.ref = existingAttempt],
                                 Response200(now))]
           ELSE /\ heap' = Append(heap,
                     IF route = "handleOrderCancelled"
                       THEN NewAttempt(id, orderData, "CANCELLED", <<>>,
                                       now, now)
                       ELSE NewAttempt(id, orderData, "REFUNDED",
                                       PlaceholderToken(now), now, now))
                /\ donationAttempts' =
                     [donationAttempts EXCEPT ![StoreKey(orderData)] = id]
                /\ reqs' = [q \in Reqs |->
                     IF q # r THEN Others(r, StoreKey(orderData))[q]
                     ELSE Answer([Arrived(r, rq, PayloadOf(rq)) EXCEPT !.ref = id],
                                 Response200(now))]
  /\ UNCHANGED <<now, apiUrl, call>>

\* the clock has been read at its present value: by an attempt written, or
\* by an acknowledgment sent
ClockRead ==
  \/ \E i \in 1..Len(heap) : heap[i].updated_at = now
  \/ \E r \in Reqs :
       /\ reqs[r].resp # <<>>
       /\ reqs[r].resp[1].status = 200
       /\ reqs[r].resp[1].body.timestamp = now

\* time passes. The values of the clock are the instants at which it is read,
\* in order: the next value comes after a reading of the present one.
Tick ==
  /\ now < MaxTime
  /\ ClockRead
  /\ now' = now + 1
  /\ UNCHANGED <<apiUrl, donationAttempts, heap, reqs, call>>

Next ==
  \/ \E r \in Reqs, rq \in Requests : RejectSignature(r, rq)
  \/ \E r \in Reqs, rq \in Requests : ParseFails(r, rq)
  \/ \E r \in Reqs, rq \in Requests : LogOnly(r, rq)
  \/ \E r \in Reqs, rq \in Requests : HandlerThrows(r, rq)
  \/ \E r \in Reqs, rq \in Requests : HandleOrderApproved(r, rq)
  \/ \E r \in Reqs, rq \in Requests : HandleOrderEnded(r, rq)
  \/ \E r \in Reqs : \E outcome \in CreateDonationOutcomes(apiUrl) :
       GatewayReturns(r, outcome)
  \/ Tick

Spec == Init /\ [][Next]_vars

TypeOK ==
  /\ now \in 0..MaxTime
  /\ \A k \in Keys : donationAttempts[k] \in 0..Len(heap)
  /\ \A r \in Reqs : reqs[r].pc \in {"idle", "awaitGateway", "done"}

\* ------------------------------------------------------------------------
\* WebhookHandler.getDonations: Array.from(this.donationAttempts.values()),
\* the stored attempts in the order in which their keys were first set
\* ------------------------------------------------------------------------
FirstOfKey(i) ==
  \A j \in 1..(i - 1) : heap[j].sympla_order_id # heap[i].sympla_order_id

RECURSIVE ValuesFrom(_)
ValuesFrom(i) ==
  IF i > Len(heap) THEN <<>>
  ELSE (IF FirstOfKey(i)
          THEN <<heap[donationAttempts[heap[i].sympla_order_id]]>>
          ELSE <<>>) \o ValuesFrom(i + 1)

\* every attempt ever created, the replaced ones included
getDonations_All == heap

getDonations == ValuesFrom(1)

\* ------------------------------------------------------------------------
\* Vocabulary of the properties
\* ------------------------------------------------------------------------
Stored(k) == donationAttempts[k] # NoRef
Attempt(k) == heap[donationAttempts[k]]

\* the entries of list() for order identifier k
EntriesFor(list, k) == {i \in 1..Len(list) : list[i].sympla_order_id = k}

TerminalStates == {"COMPLETED", "DECLINED", "CANCELLED", "REFUNDED"}

\* the header is the hex HMAC-SHA256 of the body under the webhook secret,
\* with or without the sha256= prefix
SignatureVerifies(rq) ==
  rq.signature \in {HmacHex(WebhookSecret, rq.body),
                    Sha256Prefix \o HmacHex(WebhookSecret, rq.body)}

HasData(rec) == rec.payload # NoPayload /\ rec.payload.data # NoData
IsEvent(rec, kind) == rec.payload # NoPayload /\ rec.payload.event = kind
KeyOf(rec) == rec.payload.data.order_identifier

\* ------------------------------------------------------------------------
\* C1: a request whose signature header is absent or does not verify is
\* answered 401 (once), causes no gateway call and leaves the attempt store
\* as it was.
\* ------------------------------------------------------------------------
C1_Unauthorized ==
  [][\A r \in Reqs :
       (reqs[r].pc = "idle" /\ reqs'[r].pc # "idle"
          /\ ~SignatureVerifies(reqs'[r].input))
       => /\ reqs'[r].pc = "done"
          /\ Len(reqs'[r].resp) = 1
          /\ reqs'[r].resp[1].status = 401
          /\ \A q \in Reqs : reqs'[q].calls = reqs[q].calls
          /\ donationAttempts' = donationAttempts
          /\ heap' = heap]_vars

\* a request signed with another secret was answered 401 while the store
\* holds an attempt
C1_Witness ==
  \E r \in Reqs :
    /\ reqs[r].pc = "done"
    /\ reqs[r].input.signature # NoHeader
    /\ ~SignatureVerifies(reqs[r].input)
    /\ reqs[r].resp[1].status = 401
    /\ \E k \in Keys : Stored(k)

\* ------------------------------------------------------------------------
\* C2: when the handling of an authenticated order.approved event for an
\* order that had no stored attempt finishes, the store holds exactly one
\* attempt for that order, COMPLETED if the gateway call succeeded and
\* DECLINED if it failed.
\* ------------------------------------------------------------------------
C2_FreshApproval ==
  [][\A r \in Reqs :
       (reqs[r].pc = "awaitGateway" /\ reqs'[r].pc = "done"
          /\ reqs[r].prev = NoRef)
       => /\ Stored(KeyOf(reqs[r]))'
          /\ Cardinality(EntriesFor(getDonations, KeyOf(reqs[r])))' = 1
          /\ Attempt(KeyOf(reqs[r]))'.status =
               (IF reqs'[r].gw.state = "ok" THEN "COMPLETED" ELSE "DECLINED")]_vars

\* a first approval of SPL-1 failed at the gateway and is stored DECLINED
C2_Witness ==
  \E r \in Reqs :
    /\ reqs[r].pc = "done"
    /\ IsEvent(reqs[r], "order.approved")
    /\ HasData(reqs[r])
    /\ reqs[r].ref = 1
    /\ reqs[r].gw.state = "failed"
    /\ Attempt(KeyOf(reqs[r])).status = "DECLINED"

\* the request whose handling this step starts or finishes
Acts(r) == reqs'[r].pc # reqs[r].pc

\* ------------------------------------------------------------------------
\* C3 (as stated): once the status stored for an order is COMPLETED,
\* DECLINED, CANCELLED or REFUNDED, no later event changes it.
\* ------------------------------------------------------------------------
C3_TerminalNeverChanges ==
  [][\A k \in Keys :
       (Stored(k) /\ Attempt(k).status \in TerminalStates)
       => Attempt(k)'.status = Attempt(k).status]_vars

\* C3 (amended): once the status stored for an order is COMPLETED, DECLINED,
\* CANCELLED or REFUNDED, it is changed only by the handling of an
\* order.approved, order.cancelled or order.refunded event for that same
\* order identifier; order.created events, unrecognized events, rejected
\* requests and events for other orders leave it as it is.
C3_TerminalChangesOnlyByOrderEvents ==
  [][\A k \in Keys :
       (Stored(k) /\ Attempt(k).status \in TerminalStates
          /\ Attempt(k)'.status # Attempt(k).status)
       => \E r \in Reqs :
            /\ Acts(r)
            /\ HasData(reqs'[r])
            /\ KeyOf(reqs'[r]) = k
            /\ reqs'[r].payload.event \in
                 {"order.approved", "order.cancelled", "order.refunded"}]_vars

\* an order.created event for SPL-1 was answered 200 after the attempt of
\* SPL-1 had reached a terminal status, which it still has
C3_Witness ==
  /\ reqs[1].pc = "done"
  /\ HasData(reqs[1])
  /\ KeyOf(reqs[1]) = "SPL-1"
  /\ reqs[2].pc = "done"
  /\ IsEvent(reqs[2], "order.created")
  /\ HasData(reqs[2])
  /\ KeyOf(reqs[2]) = "SPL-1"
  /\ reqs[2].resp[1].status = 200
  /\ \A q \in Reqs : q > 2 => reqs[q].pc = "idle"
  /\ Stored("SPL-1")
  /\ Attempt("SPL-1").status \in TerminalStates

\* ------------------------------------------------------------------------
\* C4: COMPLETED or DECLINED is written only to an attempt whose status at
\* that moment is PENDING_USER_ACTION: the gateway result never overwrites a
\* CANCELLED or REFUNDED set while the call was in flight.
\* ------------------------------------------------------------------------
C4_ResultOnlyOverPending ==
  [][\A r \in Reqs :
       (reqs[r].pc = "awaitGateway" /\ reqs'[r].pc = "done")
       => heap[reqs[r].ref].status = "PENDING_USER_ACTION"]_vars

\* ------------------------------------------------------------------------
\* C5: the status stored for an order is the one written by the last store
\* write, whatever the order of arrival of the events: each handler's write
\* leaves its own status stored, over whatever status was there, so an
\* order.cancelled acknowledged while an earlier order.approved awaits the
\* gateway can end stored as COMPLETED or DECLINED.
\* ------------------------------------------------------------------------
C5_LastWriteWins ==
  [][\A r \in Reqs :
       (Acts(r) /\ HasData(reqs'[r])
          /\ reqs'[r].payload.event \in
               {"order.approved", "order.cancelled", "order.refunded"})
       => /\ donationAttempts'[KeyOf(reqs'[r])] = reqs'[r].ref
          /\ heap'[donationAttempts'[KeyOf(reqs'[r])]].status =
               (CASE reqs'[r].payload.event = "order.cancelled" -> "CANCELLED"
                  [] reqs'[r].payload.event = "order.refunded" -> "REFUNDED"
                  [] reqs'[r].pc = "awaitGateway" -> "PENDING_USER_ACTION"
                  [] reqs'[r].gw.state = "ok" -> "COMPLETED"
                  [] OTHER -> "DECLINED")]_vars

\* an order.cancelled (or order.refunded) arrived after an order.approved of
\* the same order, found its attempt and was answered 200, and the attempt
\* is stored as COMPLETED or DECLINED: the gateway result was written last
C5_Witness ==
  \E r1, r2 \in Reqs :
    /\ r1 < r2
    /\ reqs[r1].pc = "done" /\ reqs[r2].pc = "done"
    /\ IsEvent(reqs[r1], "order.approved") /\ HasData(reqs[r1])
    /\ HasData(reqs[r2])
    /\ reqs[r2].payload.event \in {"order.cancelled", "order.refunded"}
    /\ KeyOf(reqs[r2]) = KeyOf(reqs[r1])
    /\ reqs[r2].ref = reqs[r1].ref
    /\ reqs[r2].resp[1].status = 200
    /\ donationAttempts[KeyOf(reqs[r1])] = reqs[r1].ref
    /\ Attempt(KeyOf(reqs[r1])).status \in {"COMPLETED", "DECLINED"}

\* ------------------------------------------------------------------------
\* C6: handling a webhook for order identifier A never creates, changes or
\* removes the stored attempt of another order identifier B, under every
\* interleaving.
\* ------------------------------------------------------------------------
C6_OtherOrdersUntouched ==
  [][\A r \in Reqs :
       (Acts(r) /\ HasData(reqs'[r]))
       => \A b \in Keys \ {KeyOf(reqs'[r])} :
            /\ donationAttempts'[b] = donationAttempts[b]
            /\ Stored(b) => Attempt(b)' = Attempt(b)]_vars

\* attempts of SPL-1 and SPL-2 are stored, the one of SPL-2 created while
\* the approval of SPL-1 awaited the gateway
C6_Witness ==
  /\ Stored("SPL-1") /\ Stored("SPL-2")
  /\ reqs[1].pc = "awaitGateway"
  /\ KeyOf(reqs[1]) = "SPL-1"
  /\ reqs[2].pc # "idle"
  /\ HasData(reqs[2])
  /\ KeyOf(reqs[2]) = "SPL-2"

\* the request is answered in this step
Answered(r) == reqs[r].pc # "done" /\ reqs'[r].pc = "done"

OrderEvents ==
  {"order.approved", "order.created", "order.cancelled", "order.refunded"}

\* ------------------------------------------------------------------------
\* C7 (as stated): every request that passes signature verification and
\* payload parsing (JSON.parse) is answered 200.
\* ------------------------------------------------------------------------
C7_ParsedIsAcknowledged ==
  [][\A r \in Reqs :
       (Answered(r) /\ SignatureVerifies(reqs'[r].input)
          /\ Bodies[reqs'[r].input.body].text # "invalid-json")
       => reqs'[r].resp[1].status = 200]_vars

\* C7 (amended): every request that passes signature verification and whose
\* body parses into a payload carrying the data object its event kind reads
\* (any payload of an unrecognized kind included) is answered with the 200
\* acknowledgment, once, including an order.approved whose gateway call
\* fails: the failure shows only as the status DECLINED.
C7_WellFormedIsAcknowledged ==
  [][\A r \in Reqs :
       (Answered(r) /\ SignatureVerifies(reqs'[r].input)
          /\ Bodies[reqs'[r].input.body].text = "object"
          /\ (Bodies[reqs'[r].input.body].data # NoData
                \/ Bodies[reqs'[r].input.body].event \notin OrderEvents))
       => /\ Len(reqs'[r].resp) = 1
          /\ reqs'[r].resp[1].status = 200
          /\ reqs'[r].resp[1].body.status = "success"
          /\ reqs'[r].gw.state = "failed"
               => heap'[reqs'[r].ref].status = "DECLINED"]_vars

\* an order.approved whose gateway call failed was answered 200
C7_Witness ==
  \E r \in Reqs :
    /\ reqs[r].pc = "done"
    /\ IsEvent(reqs[r], "order.approved")
    /\ reqs[r].gw.state = "failed"
    /\ reqs[r].resp[1].status = 200

\* ------------------------------------------------------------------------
\* C8: after two authenticated order.approved events for the same order are
\* processed one after the other, the store holds exactly one attempt for
\* that order (one entry in list()), the one created by the second event,
\* with the status of the second gateway call.
\* ------------------------------------------------------------------------
C8_SecondApprovalReplaces ==
  [][\A r \in Reqs :
       (reqs[r].pc = "awaitGateway" /\ reqs'[r].pc = "done"
          /\ reqs[r].alone
          /\ \E q \in Reqs \ {r} : /\ reqs[q].pc = "done"
                                  /\ IsEvent(reqs[q], "order.approved")
                                  /\ HasData(reqs[q])
                                  /\ reqs[q].ref = reqs[r].prev)
       => /\ Cardinality(EntriesFor(getDonations, KeyOf(reqs[r])))' = 1
          /\ Attempt(KeyOf(reqs[r]))'.id = reqs[r].ref
          /\ reqs[r].ref # reqs[r].prev
          /\ Attempt(KeyOf(reqs[r]))'.status =
               (IF reqs'[r].gw.state = "ok" THEN "COMPLETED" ELSE "DECLINED")]_vars

\* two approvals of SPL-1 were processed one after the other, the first
\* COMPLETED and the second DECLINED, and DECLINED is what is stored
C8_Witness ==
  \E r1, r2 \in Reqs :
    /\ r1 < r2
    /\ reqs[r1].pc = "done" /\ reqs[r2].pc = "done"
    /\ IsEvent(reqs[r1], "order.approved") /\ HasData(reqs[r1])
    /\ IsEvent(reqs[r2], "order.approved") /\ HasData(reqs[r2])
    /\ reqs[r1].alone /\ reqs[r2].alone
    /\ reqs[r2].prev = reqs[r1].ref
    /\ reqs[r1].gw.state = "ok" /\ reqs[r2].gw.state = "failed"
    /\ Len(getDonations) = 1
    /\ getDonations[1].id = reqs[r2].ref
    /\ getDonations[1].status = "DECLINED"

\* ------------------------------------------------------------------------
\* C9: an authenticated order.cancelled (order.refunded) event for an order
\* with no stored attempt creates exactly one attempt for it, directly in
\* CANCELLED (REFUNDED): no attempt is in PENDING_USER_ACTION because of it
\* and the gateway is not called.
\* ------------------------------------------------------------------------
C9_EndedWithoutApproval ==
  [][\A r \in Reqs :
       (Acts(r) /\ HasData(reqs'[r])
          /\ reqs'[r].payload.event \in {"order.cancelled", "order.refunded"}
          /\ ~Stored(KeyOf(reqs'[r])))
       => /\ Len(heap') = Len(heap) + 1
          /\ donationAttempts'[KeyOf(reqs'[r])] = Len(heap')
          /\ Cardinality({i \in 1..Len(getDonations') :
               getDonations'[i].sympla_order_id = KeyOf(reqs'[r])}) = 1
          /\ heap'[Len(heap')].status =
               (IF reqs'[r].payload.event = "order.cancelled"
                  THEN "CANCELLED" ELSE "REFUNDED")
          /\ \A i \in 1..Len(heap) : heap'[i] = heap[i]
          /\ reqs'[r].pc = "done"
          /\ \A q \in Reqs : reqs'[q].calls = reqs[q].calls]_vars

\* an order.refunded for an order never approved was answered: its attempt
\* is the only one and is REFUNDED, and no gateway call was made
C9_Witness ==
  \E r \in Reqs :
    /\ reqs[r].pc = "done"
    /\ IsEvent(reqs[r], "order.refunded")
    /\ HasData(reqs[r])
    /\ reqs[r].prev = NoRef
    /\ Len(heap) = 1
    /\ reqs[r].ref = 1
    /\ Attempt(KeyOf(reqs[r])).status = "REFUNDED"
    /\ \A q \in Reqs : reqs[q].calls = 0

\* ------------------------------------------------------------------------
\* C10: after a successful gateway call for an order.approved event, the
\* attempt stored for that order records the donation identifier returned by
\* the gateway (in one of its text fields).
\* ------------------------------------------------------------------------
TextFields ==
  {"sympla_order_id", "sympla_event_id", "status", "donor_email",
   "event_name", "order_amount"}

C10_DonationIdRecorded ==
  [][\A r \in Reqs :
       (reqs[r].pc = "awaitGateway" /\ reqs'[r].pc = "done"
          /\ reqs'[r].gw.state = "ok")
       => \E f \in TextFields :
            Attempt(KeyOf(reqs[r]))'[f] = reqs'[r].gw.outcome.donationId]_vars

\* the request starts being handled in this step
Starts(r) == reqs[r].pc = "idle" /\ reqs'[r].pc # "idle"

\* ------------------------------------------------------------------------
\* C11: a request that passes signature verification but whose body is not
\* decodable JSON is answered 500 (once), causes no gateway call and leaves
\* the attempt store as it was.
\* ------------------------------------------------------------------------
C11_UndecodableBody ==
  [][\A r \in Reqs :
       (Starts(r) /\ SignatureVerifies(reqs'[r].input)
          /\ Bodies[reqs'[r].input.body].text = "invalid-json")
       => /\ reqs'[r].pc = "done"
          /\ Len(reqs'[r].resp) = 1
          /\ reqs'[r].resp[1].status = 500
          /\ \A q \in Reqs : reqs'[q].calls = reqs[q].calls
          /\ reqs'[r].gw.state = "none"
          /\ donationAttempts' = donationAttempts
          /\ heap' = heap]_vars

\* a correctly signed body that is not JSON was answered 500 while the store
\* holds an attempt
C11_Witness ==
  \E r \in Reqs :
    /\ reqs[r].pc = "done"
    /\ SignatureVerifies(reqs[r].input)
    /\ Bodies[reqs[r].input.body].text = "invalid-json"
    /\ reqs[r].resp[1].status = 500
    /\ \E k \in Keys : Stored(k)

C13_FailureIsCaught ==
  [][\A r \in Reqs :
       (reqs[r].pc = "awaitGateway" /\ Acts(r))
       => /\ reqs'[r].pc = "done"
          /\ reqs'[r].resp = <<Response200(now)>>
          /\ reqs'[r].gw.state \in {"ok", "failed"}
          /\ reqs'[r].gw.state = "failed"
               => /\ heap'[reqs[r].ref].status = "DECLINED"
                  /\ heap'[reqs[r].ref].updated_at = now]_vars

\* with a real gateway configured, the call of an approval failed: its
\* attempt is DECLINED and its only answer is the 200 acknowledgment
C13_Witness ==
  \E r \in Reqs :
    /\ apiUrl = CustomApiUrl
    /\ reqs[r].pc = "done"
    /\ reqs[r].gw.state = "failed"
    /\ heap[reqs[r].ref].status = "DECLINED"
    /\ Len(reqs[r].resp) = 1
    /\ reqs[r].resp[1].body.status = "success"

\* ------------------------------------------------------------------------
\* C14: createDonation is invoked only while handling an order.approved
\* event: the handling of an order.created, order.cancelled, order.refunded
\* or unrecognized event makes no gateway call, and every call counted
\* belongs to an order.approved event.
\* ------------------------------------------------------------------------
C14_OnlyApprovalCallsGateway ==
  [][/\ \A r \in Reqs :
          (Acts(r) /\ reqs'[r].payload # NoPayload
             /\ reqs'[r].payload.event # "order.approved")
          => /\ \A q \in Reqs : reqs'[q].calls = reqs[q].calls
             /\ reqs'[r].gw.state = "none"
             /\ reqs'[r].pc = "done"
     /\ \A q \in Reqs :
          reqs'[q].calls # reqs[q].calls
          => IsEvent(reqs'[q], "order.approved")]_vars

\* a cancellation or refund and an order.created or unrecognized event were
\* both acknowledged, and the gateway was never called
C14_Witness ==
  \E r1, r2 \in Reqs :
    /\ reqs[r1].pc = "done" /\ reqs[r2].pc = "done"
    /\ HasData(reqs[r1])
    /\ reqs[r1].payload.event \in {"order.cancelled", "order.refunded"}
    /\ HasData(reqs[r2])
    /\ reqs[r2].payload.event \in {"order.created", "order.updated"}
    /\ reqs[r1].resp[1].status = 200 /\ reqs[r2].resp[1].status = 200
    /\ \A q \in Reqs : reqs[q].calls = 0 /\ reqs[q].gw.state = "none"

\* the request is authenticated and its payload is an order.created event or
\* an event of an unrecognized kind
Informational(rec) ==
  /\ SignatureVerifies(rec.input)
  /\ rec.payload # NoPayload
  /\ rec.payload.event \notin
       {"order.approved", "order.cancelled", "order.refunded"}

\* ------------------------------------------------------------------------
\* C15 (as stated): an authenticated order.created event, or an event of an
\* unrecognized kind, leaves the whole attempt store unchanged whatever the
\* prior state of the order, and is answered 200.
\* ------------------------------------------------------------------------
C15_InformationalAcknowledged ==
  [][\A r \in Reqs :
       (Acts(r) /\ Informational(reqs'[r]))
       => /\ donationAttempts' = donationAttempts
          /\ heap' = heap
          /\ reqs'[r].resp[1].status = 200]_vars

\* C15 (amended): an authenticated order.created event, or an event of an
\* unrecognized kind, leaves the whole attempt store unchanged whatever the
\* prior state of the order; it is answered 200, except an order.created
\* payload without a data object, which is answered 500.
C15_InformationalLeavesStore ==
  [][\A r \in Reqs :
       (Acts(r) /\ Informational(reqs'[r]))
       => /\ donationAttempts' = donationAttempts
          /\ heap' = heap
          /\ reqs'[r].pc = "done"
          /\ Len(reqs'[r].resp) = 1
          /\ reqs'[r].resp[1].status =
               (IF reqs'[r].payload.event = "order.created"
                     /\ reqs'[r].payload.data = NoData
                  THEN 500 ELSE 200)]_vars

\* an event of an unrecognized kind for an order was acknowledged after the
\* attempt of that order had been stored, and the store holds that attempt
C15_Witness ==
  \E r \in Reqs :
    /\ reqs[r].pc = "done"
    /\ Informational(reqs[r])
    /\ reqs[r].payload.event = "order.updated"
    /\ reqs[r].resp[1].status = 200
    /\ Stored(KeyOf(reqs[r]))
    /\ Len(heap) = 1
    /\ \E q \in Reqs : q < r /\ reqs[q].ref = 1

\* ------------------------------------------------------------------------
\* C16: processWebhook dispatches a correctly signed event only if its
\* timestamp lies within the replay-acceptance window: the handling of a
\* signed event whose timestamp is outside the window (validateTimestamp
\* with the default tolerance is false at the time of arrival) mutates no
\* state and makes no gateway call.
\* ------------------------------------------------------------------------
C16_ReplayWindowEnforced ==
  [][\A r \in Reqs :
       (Starts(r) /\ SignatureVerifies(reqs'[r].input)
          /\ reqs'[r].payload # NoPayload
          /\ DateParses(reqs'[r].payload.timestamp)
          /\ ~validateTimestamp(reqs'[r].payload.timestamp,
                                DefaultToleranceMinutes, now))
       => /\ donationAttempts' = donationAttempts
          /\ heap' = heap
          /\ \A q \in Reqs : reqs'[q].calls = reqs[q].calls]_vars

\* ------------------------------------------------------------------------
\* SignatureValidator on its own: one call of validateSignature or of
\* validateTimestamp, from its arguments to its result
\* ------------------------------------------------------------------------
UpperPrefix == <<"S", "H", "A", "2", "5", "6", "=">>
MixedPrefix == <<"S", "h", "a", "2", "5", "6", "=">>
Prefixes == {Sha256Prefix, UpperPrefix, MixedPrefix}

Space == <<" ">>

\* the digest with its letters in upper case
ToUpperHex(s) ==
  [i \in 1..Len(s) |-> IF IsHex(s[i]) THEN HexUpper[HexVal(s[i]) + 1] ELSE s[i]]

\* header values made of the digest d: bare and prefixed, with white space
\* around and inside, with characters added and removed
HeadersOf(d) ==
  {d, ToUpperHex(d)} \cup {p \o d : p \in Prefixes} \cup
  {Space \o d, d \o Space, Space \o d \o Space, <<"\t">> \o d \o <<"\n">>,
   Sha256Prefix \o d \o Space, Space \o Sha256Prefix \o d,
   Space \o UpperPrefix \o d \o Space, Sha256Prefix \o Space \o d} \cup
  {d \o <<"z", "z">>, d \o <<"a">>, d \o <<"0", "0">>,
   Sha256Prefix \o d \o <<"-", "x">>, <<"z", "z">> \o d,
   SubSeq(d, 1, Len(d) - 1), SubSeq(d, 1, Len(d) - 2),
   Sha256Prefix \o Sha256Prefix \o d}

\* header values that hold no digest: absent, empty, the prefix alone, and
\* the values of the tests 'sha256=invalid-signature' and
\* 'not-a-valid-signature-format', shortened
OtherHeaders ==
  {NoHeader, <<>>, Space, Sha256Prefix,
   Sha256Prefix \o <<"i", "n", "v", "a", "l", "i", "d">>,
   <<"n", "o", "t", "-", "a", "-", "v", "a", "l", "i", "d">>}

SigPayloads == {1, ApprovedBody, CancelledBody}

SignatureCalls ==
  {[fn |-> "validateSignature", secret |-> s, payload |-> b,
    signature |-> h, result |-> "pending"] :
     s \in {WebhookSecret, OtherSecret}, b \in SigPayloads,
     h \in OtherHeaders \cup
           UNION {HeadersOf(HmacHex(s2, b2)) :
                    s2 \in {WebhookSecret, OtherSecret}, b2 \in SigPayloads}}

\* the argument toleranceMinutes: given, or left to its default
NoArgument == [omitted |-> TRUE]
ToleranceOf(arg) ==
  IF "given" \in DOMAIN arg THEN arg.given ELSE DefaultToleranceMinutes

MinuteMs == 60 * 1000

\* timestamps at, just inside and just outside the windows of 0, 5 and 10
\* minutes around the instants of the clock, the 8 and 10 minutes of the
\* tests, a text that is not a date and no timestamp at all
TimestampOffsets ==
  {0, 1, MaxTime + 1} \cup
  UNION {{m * MinuteMs - 1, m * MinuteMs, m * MinuteMs + 1,
          m * MinuteMs + MaxTime, m * MinuteMs + MaxTime + 1} :
           m \in {5, 8, 10}}

Timestamps ==
  {[iso |-> d] : d \in TimestampOffsets} \cup
  {[iso |-> 0 - d] : d \in TimestampOffsets} \cup
  {[text |-> "not-a-timestamp"], NoTimestamp}

TimestampCalls ==
  {[fn |-> "validateTimestamp", timestamp |-> t, toleranceMinutes |-> tol,
    result |-> "pending"] :
     t \in Timestamps,
     tol \in {NoArgument, [given |-> 0], [given |-> 5], [given |-> 10]}}

BoolText(b) == IF b THEN "true" ELSE "false"

InitValidator ==
  /\ now \in 0..MaxTime
  /\ apiUrl = DefaultApiUrl
  /\ donationAttempts = [k \in Keys |-> NoRef]
  /\ heap = <<>>
  /\ reqs = [r \in Reqs |-> IdleReq]
  /\ call \in SignatureCalls \cup TimestampCalls

\* validateSignature runs to its return: replace, trim and Buffer.from take
\* any string, and timingSafeEqual, inside its try block, is reached with
\* buffers of equal length only
ValidateSignatureCall ==
  /\ call.fn = "validateSignature"
  /\ call.result = "pending"
  /\ call' = [call EXCEPT !.result =
       BoolText(validateSignature(call.secret, call.payload, call.signature))]
  /\ UNCHANGED <<now, apiUrl, donationAttempts, heap, reqs>>

\* validateTimestamp runs to its return; Date.now() reads now
ValidateTimestampCall ==
  /\ call.fn = "validateTimestamp"
  /\ call.result = "pending"
  /\ call' = [call EXCEPT !.result =
       BoolText(validateTimestamp(call.timestamp,
                                  ToleranceOf(call.toleranceMinutes), now))]
  /\ UNCHANGED <<now, apiUrl, donationAttempts, heap, reqs>>

NextValidator == ValidateSignatureCall \/ ValidateTimestampCall

SpecValidator == InitValidator /\ [][NextValidator]_vars

\* the call of fn has returned
Returned(fn) == call.fn = fn /\ call.result # "pending"

\* ------------------------------------------------------------------------
\* C17: for every payload P and secret S, a validator keyed with S accepts
\* the header 'sha256=' + hex HMAC-SHA256(S, P) for P, and rejects the same
\* header for any payload different from P.
\* ------------------------------------------------------------------------
C17_SignatureRoundTrip ==
  Returned("validateSignature")
  => \A p \in SigPayloads :
       call.signature = Sha256Prefix \o HmacHex(call.secret, p)
       => (call.result = "true" <=> call.payload = p)

\* the header made for one payload was checked against another payload and
\* rejected
C17_Witness ==
  /\ Returned("validateSignature")
  /\ \E p \in SigPayloads \ {call.payload} :
       call.signature = Sha256Prefix \o HmacHex(call.secret, p)
  /\ call.result = "false"

\* a header, white space around it and one optional sha256= prefix aside, is
\* the digest's number of hex digits
WellFormedHeader(h) ==
  LET core == Trim(StripPrefix(Trim(h)))
  IN  /\ Len(core) = 2 * DigestBytes
      /\ \A i \in 1..Len(core) : IsHex(core[i])

\* ------------------------------------------------------------------------
\* C18: validateSignature returns false, and does not throw, for every
\* empty, absent or malformed signature header, values that are not
\* hexadecimal or have the wrong length included.
\* ------------------------------------------------------------------------
C18_MalformedRejected ==
  (/\ Returned("validateSignature")
   /\ \/ call.signature \in {NoHeader, <<>>}
      \/ ~WellFormedHeader(call.signature))
  => call.result = "false"

\* the forms of header the digest d is to be accepted in
AcceptedForms(d) ==
  {w1 \o p \o d \o w2 :
     w1 \in {<<>>, Space}, w2 \in {<<>>, Space}, p \in Prefixes \cup {<<>>}}

\* ------------------------------------------------------------------------
\* C19: validateSignature strips an optional sha256= prefix in any letter
\* case and trims surrounding white space before comparing: the correct
\* digest is accepted with or without the prefix, with the prefix in any
\* case, and with white space around the header value.
\* ------------------------------------------------------------------------
C19_NormalisedAccepted ==
  (/\ Returned("validateSignature")
   /\ call.signature \in AcceptedForms(HmacHex(call.secret, call.payload)))
  => call.result = "true"

\* ------------------------------------------------------------------------
\* C20: validateTimestamp(t, tol) returns true exactly when t parses as a
\* date and lies no more than tol * 60,000 ms before or after the current
\* time (tol is 5 when omitted); for a t that does not parse it returns
\* false.
\* ------------------------------------------------------------------------
C20_TimestampWindow ==
  Returned("validateTimestamp")
  => LET tol == IF call.toleranceMinutes = NoArgument
                  THEN 5 ELSE call.toleranceMinutes.given
     IN  call.result = "true"
           <=> /\ call.timestamp \notin {NoTimestamp, [text |-> "not-a-timestamp"]}
               /\ now - tol * 60000 <= call.timestamp.iso
               /\ call.timestamp.iso <= now + tol * 60000

\* with the default tolerance, a timestamp 1 ms beyond the window in the
\* future was rejected
C20_Witness ==
  /\ Returned("validateTimestamp")
  /\ call.toleranceMinutes = NoArgument
  /\ DateParses(call.timestamp)
  /\ call.timestamp.iso = now + 5 * 60000 + 1
  /\ call.result = "false"

\* ------------------------------------------------------------------------
\* TokenGenerator.validateToken
\* ------------------------------------------------------------------------
MaxTokens == 2

Null == [null |-> TRUE]       \* the result null
Thrown == [threw |-> TRUE]    \* an exception leaves the function

\* a segment that is neither an encoded payload nor a digest
Text(s) == [text |-> s]

\* token.split('.') and the destructuring [encodedPayload, signature]: the
\* first two segments, undefined where the token has fewer
SegmentOf(token, i) == IF Len(token) >= i THEN token[i] ELSE Text(Undefined)

\* the number of bytes of a segment: a base64url SHA-256 digest has 43
DigestLength == 43
ByteLength(segment) ==
  IF "hmac" \in DOMAIN segment THEN DigestLength
  ELSE IF "text" \in DOMAIN segment THEN Len(segment.text)
  ELSE DigestLength + 1

\* Buffer.from(encodedPayload, 'base64url').toString(): no input makes it
\* throw; what is not an encoding decodes to a text that is not JSON
Base64UrlDecode(segment) ==
  IF "b64" \in DOMAIN segment THEN segment.b64 ELSE Text("garbage")

\* JSON.parse of the decoded text
ParsesAsJSON(text) == "json" \in DOMAIN text

\* the body of the try block, lines 39-57
validateToken_Try(secret, token, currentTime) ==
  LET encodedPayload == SegmentOf(token, 1)
      signature == SegmentOf(token, 2)
      expectedSignature == signPayload(secret, encodedPayload)
  IN  IF signature = Text(Undefined) THEN Thrown      \* Buffer.from(undefined)
      ELSE IF ByteLength(signature) # ByteLength(expectedSignature)
        THEN Thrown                                   \* timingSafeEqual
      ELSE IF signature # expectedSignature THEN Null
      ELSE IF ~ParsesAsJSON(Base64UrlDecode(encodedPayload)) THEN Thrown
      ELSE LET payload == Base64UrlDecode(encodedPayload).json
           IN  IF currentTime > payload.exp THEN Null ELSE payload

\* validateToken that compares no signature
validateToken_Unverified(secret, token, currentTime) ==
  LET encodedPayload == SegmentOf(token, 1)
  IN  IF ~ParsesAsJSON(Base64UrlDecode(encodedPayload)) THEN Null
      ELSE LET payload == Base64UrlDecode(encodedPayload).json
           IN  IF currentTime > payload.exp THEN Null ELSE payload

\* validateToken that rejects a token at the instant of its expiration
validateToken_ExpiresEarly(secret, token, currentTime) ==
  LET r == validateToken_Try(secret, token, currentTime)
  IN  IF r = Thrown THEN Null
      ELSE IF r # Null /\ currentTime >= r.exp THEN Null
      ELSE r

\* validateToken: the catch block turns every exception into null
validateToken(secret, token, currentTime) ==
  LET r == validateToken_Try(secret, token, currentTime)
  IN  IF r = Thrown THEN Null ELSE r

\* ------------------------------------------------------------------------
\* TokenGenerator on its own: tokens are issued and handed back, as issued
\* or altered, to validateToken
\* ------------------------------------------------------------------------
EventIds == {"EVT-1", "EVT-2"}

\* the instants of the clock: those of issuance, and those around the
\* expirations of the tokens issued at them
TokenInstants ==
  (0..(MaxTime + 1)) \cup
  {TokenTTL + d - 1 : d \in 0..(MaxTime + 3)}

OtherOrder(o) == CHOOSE x \in OrderIds : x # o

\* the payload segment of tk with one field changed
WithPayload(tk, field, value) ==
  Base64UrlEncode(JSONStringify([tk[1].b64.json EXCEPT ![field] = value]))

\* token strings made of the issued token tk: the token itself, its
\* signature or its payload replaced, segments added and removed
Alterations ==
  {"intact", "invalid-signature", "other-signature", "other-order",
   "later-exp", "extra-segment", "no-separator", "signed-garbage",
   "malformed", "empty"}

Altered(how, issue) ==
  LET tk == issue.token
  IN  CASE how = "intact" -> tk
        [] how = "invalid-signature" -> <<tk[1], Text("invalid-signature")>>
        [] how = "other-signature" ->
             <<tk[1], signPayload(issue.secret,
                                  WithPayload(tk, "orderId",
                                              OtherOrder(issue.orderId)))>>
        [] how = "other-order" ->
             <<WithPayload(tk, "orderId", OtherOrder(issue.orderId)), tk[2]>>
        [] how = "later-exp" ->
             <<WithPayload(tk, "exp", tk[1].b64.json.exp + TokenTTL), tk[2]>>
        [] how = "extra-segment" -> tk \o <<Text("extra")>>
        [] how = "no-separator" -> <<tk[1]>>
        [] how = "signed-garbage" ->
             <<Text("invalid-base64"),
               signPayload(issue.secret, Text("invalid-base64"))>>
        [] how = "malformed" ->
             <<Text("not"), Text("a"), Text("valid"), Text("token"),
               Text("format")>>
        [] how = "empty" -> <<Text("")>>

\* one generator under test, which validates; tokens are issued by it or by
\* a generator that holds the other secret
InitToken ==
  /\ now = 0
  /\ apiUrl = DefaultApiUrl
  /\ donationAttempts = [k \in Keys |-> NoRef]
  /\ heap = <<>>
  /\ reqs = [r \in Reqs |-> IdleReq]
  /\ \E s \in {WebhookSecret, OtherSecret} :
       call = [fn |-> "validateToken", secret |-> s, issued |-> <<>>,
               validated |-> <<>>, accepted |-> {}]

\* generators only issue
InitIssue ==
  /\ now = 0
  /\ apiUrl = DefaultApiUrl
  /\ donationAttempts = [k \in Keys |-> NoRef]
  /\ heap = <<>>
  /\ reqs = [r \in Reqs |-> IdleReq]
  /\ call = [fn |-> "generateDonationToken", issued |-> <<>>]

\* how many tokens the scenario issues
IssueLimit == IF call.fn = "validateToken" THEN 1 ELSE MaxTokens

\* generateDonationToken(orderId, eventId) on a generator that holds secret:
\* Date.now() is read at line 24 and again at line 25, and the clock may
\* have advanced in between
GenerateTokenCall ==
  /\ call.fn \in {"validateToken", "generateDonationToken"}
  /\ Len(call.issued) < IssueLimit
  /\ now <= MaxTime
  /\ \E secret \in {WebhookSecret, OtherSecret}, orderId \in OrderIds,
        eventId \in EventIds, t2 \in {now, now + 1} :
       /\ now' = t2
       /\ call' = [call EXCEPT !.issued = Append(@,
            [secret |-> secret, orderId |-> orderId, eventId |-> eventId,
             t1 |-> now, t2 |-> t2,
             token |-> generateDonationToken(secret, orderId, eventId,
                                             now, t2)])]
  /\ UNCHANGED <<apiUrl, donationAttempts, heap, reqs>>

\* validateToken(token) on the generator under test, of a token string made
\* of the issued one; Date.now() of line 53 reads now. validated is the last
\* call, accepted the token strings accepted by the calls before it.
ValidateTokenCall ==
  /\ call.fn = "validateToken"
  /\ Len(call.issued) = 1
  /\ \E how \in Alterations :
       LET token == Altered(how, call.issued[1])
           result == validateToken(call.secret, token, now)
       IN  call' = [call EXCEPT
             !.validated = <<[how |-> how, token |-> token, at |-> now,
                              result |-> result]>>,
             !.accepted = @ \cup
               {v.token : v \in {x \in {call.validated[i] :
                                          i \in 1..Len(call.validated)} :
                                   x.result # Null}}]
  /\ UNCHANGED <<now, apiUrl, donationAttempts, heap, reqs>>

\* time passes
TokenTick ==
  /\ \E t \in TokenInstants : t > now /\ now' = t
  /\ UNCHANGED <<apiUrl, donationAttempts, heap, reqs, call>>

NextToken == GenerateTokenCall \/ ValidateTokenCall \/ TokenTick

SpecToken == InitToken /\ [][NextToken]_vars

NextIssue == GenerateTokenCall \/ TokenTick

SpecIssue == InitIssue /\ [][NextIssue]_vars

\* the token issued in the scenario of validateToken, and the last call of
\* validateToken
Issued == call.issued[1]
Validated == call.validated[1]
HasValidated == call.fn = "validateToken" /\ call.validated # <<>>
Accepted(v) == v.result # Null /\ v.result # Thrown

\* the payload that generateDonationToken put in the issued token
PayloadOf_Issued ==
  [orderId |-> Issued.orderId, eventId |-> Issued.eventId,
   timestamp |-> Issued.t1, exp |-> Issued.t2 + TokenTTL]

\* the last call validated the issued token as issued, on a generator that
\* holds the secret of the one that issued it
ValidatedIntact ==
  /\ HasValidated
  /\ Validated.how = "intact"
  /\ Issued.secret = call.secret

\* ------------------------------------------------------------------------
\* C21: for every order identifier o and event identifier e,
\* validateToken(generateDonationToken(o, e)), called with the same secret
\* before the token expires, returns a token whose orderId is o and whose
\* eventId is e, together with its issuance and expiration times.
\* ------------------------------------------------------------------------
C21_TokenRoundTrip ==
  (ValidatedIntact /\ Validated.at < Issued.t2 + TokenTTL)
  => /\ Validated.result = PayloadOf_Issued
     /\ Validated.result.orderId = Issued.orderId
     /\ Validated.result.eventId = Issued.eventId
     /\ Validated.result.timestamp = Issued.t1
     /\ Validated.result.exp = Issued.t2 + TokenTTL

C21_Witness ==
  /\ ValidatedIntact
  /\ Validated.at < Issued.t2 + TokenTTL
  /\ Validated.at > Issued.t2
  /\ Issued.orderId = "SPL-2"
  /\ Issued.eventId = "EVT-1"
  /\ Validated.result.orderId = "SPL-2"

\* the signature segment of the token string is the HMAC of its payload
\* segment under secret
CorrectlySigned(token, secret) ==
  SegmentOf(token, 2) = signPayload(secret, SegmentOf(token, 1))

\* ------------------------------------------------------------------------
\* C22: validateToken returns null, and throws nothing, for every token
\* whose signature segment is not the HMAC of its payload segment under the
\* validator's own secret: a token issued with a different secret, a token
\* with an altered signature and a token with an altered payload are all
\* rejected.
\* ------------------------------------------------------------------------
C22_ForgedRejected ==
  (HasValidated /\ ~CorrectlySigned(Validated.token, call.secret))
  => Validated.result = Null

C22_Witness ==
  /\ HasValidated
  /\ Validated.how = "intact"
  /\ Issued.secret # call.secret
  /\ Validated.at < Issued.t2 + TokenTTL
  /\ Validated.result = Null

\* the expiration that the token string carries in its payload segment
ExpOf(token) == Base64UrlDecode(token[1]).json.exp

C24_OneSeparatorOnly ==
  (HasValidated /\ Len(Validated.token) # 2) => Validated.result = Null

\* ------------------------------------------------------------------------
\* C25: the attempt token is single-use: once validateToken has accepted a
\* token, a later call of validateToken on the same token, still unexpired,
\* is rejected.
\* ------------------------------------------------------------------------
C25_SingleUse ==
  (/\ HasValidated
   /\ Validated.token \in call.accepted
   /\ Validated.at <= ExpOf(Validated.token))
  => Validated.result = Null

\* the calls of generateDonationToken made so far
IssuedPairs ==
  {<<call.issued[i], call.issued[j]>> :
     i \in 1..Len(call.issued), j \in 1..Len(call.issued)}

\* both calls read the same instant of the clock, each time they read it
SameInstant(a, b) == a.t1 = a.t2 /\ b.t1 = b.t2 /\ a.t1 = b.t1

SameInputs(a, b) == a.orderId = b.orderId /\ a.eventId = b.eventId

PayloadIn(token) == Base64UrlDecode(token[1]).json

\* ------------------------------------------------------------------------
\* C27: every token issued by generateDonationToken carries an issuance time
\* equal to the clock at issuance and an expiration exactly 24 hours
\* (86,400,000 ms) later: exp - timestamp = 24h for every issued token, even
\* if the clock advances during issuance.
\* ------------------------------------------------------------------------
C27_ExactTTL ==
  call.fn = "generateDonationToken"
  => \A i \in 1..Len(call.issued) :
       /\ PayloadIn(call.issued[i].token).timestamp = call.issued[i].t1
       /\ PayloadIn(call.issued[i].token).exp
            - PayloadIn(call.issued[i].token).timestamp = 86400000

\* ------------------------------------------------------------------------
\* A caller of getDonations that keeps the array it was given
\* ------------------------------------------------------------------------
\* the objects of Array.from(this.donationAttempts.values()): the array is
\* new, its elements are the objects that the Map holds
RECURSIVE RefsFrom(_)
RefsFrom(i) ==
  IF i > Len(heap) THEN <<>>
  ELSE (IF FirstOfKey(i)
          THEN <<donationAttempts[heap[i].sympla_order_id]>>
          ELSE <<>>) \o RefsFrom(i + 1)

\* getDonations() returns: call keeps the array (the objects it refers to)
\* and what it showed at that moment
GetDonationsCall ==
  /\ call = NoCall
  /\ call' = [fn |-> "getDonations", refs |-> RefsFrom(1),
              seen |-> getDonations]
  /\ UNCHANGED <<now, apiUrl, donationAttempts, heap, reqs>>

NextList == Next \/ GetDonationsCall

SpecList == Init /\ [][NextList]_vars

\* what the caller reads now through the array it was given
ReadThrough(refs) == [i \in 1..Len(refs) |-> heap[refs[i]]]

\* ------------------------------------------------------------------------
\* C28: the sequence returned by getDonations() is a snapshot: a status
\* change or an overwrite applied to the store after the call returned is
\* not visible through the returned sequence or through the attempts it
\* contains.
\* ------------------------------------------------------------------------
C28_ListIsSnapshot ==
  call.fn = "getDonations" => ReadThrough(call.refs) = call.seen

\* ------------------------------------------------------------------------
\* C29: in every reachable state every stored attempt satisfies
\* created_at <= updated_at (the clock never goes backwards), and the
\* created_at of an attempt is never changed by a status transition.
\* ------------------------------------------------------------------------
C29_CreatedBeforeUpdated ==
  /\ [](\A i \in 1..Len(heap) : heap[i].created_at <= heap[i].updated_at)
  /\ [][/\ now' >= now
        /\ \A i \in 1..Len(heap) :
             /\ i <= Len(heap')
             /\ heap'[i].created_at = heap[i].created_at]_vars

C29_Witness ==
  \E k \in OrderIds :
    /\ Stored(k)
    /\ Attempt(k).status \in TerminalStates
    /\ Attempt(k).created_at < Attempt(k).updated_at

\* ------------------------------------------------------------------------
\* C30: for every order.approved event the request passed to createDonation
\* has sourcePlatform 'Sympla', sourceOrderId equal to the order identifier,
\* sourceEventId equal to the event identifier, donorName equal to first
\* name + ' ' + last name, donorEmail equal to the buyer email,
\* donationValue fixed at 5.00 whatever the order amount, and campaignId
\* 'sympla-geral-2024'.
\* ------------------------------------------------------------------------
C30_DonationRequestFields ==
  \A r \in Reqs :
    (/\ reqs[r].pc # "idle"
     /\ IsEvent(reqs[r], "order.approved")
     /\ HasData(reqs[r]))
    => /\ "request" \in DOMAIN reqs[r].gw
       /\ LET data == reqs[r].payload.data
              request == reqs[r].gw.request
          IN  /\ DOMAIN request =
                   {"sourcePlatform", "sourceOrderId", "sourceEventId",
                    "donorName", "donorEmail", "donationValue", "campaignId"}
              /\ request.sourcePlatform = "Sympla"
              /\ request.sourceOrderId = data.order_identifier
              /\ request.sourceEventId = data.event_id
              /\ request.donorName =
                   <<data.buyer_first_name, " ", data.buyer_last_name>>
              /\ request.donorEmail = data.buyer_email
              /\ request.donationValue = "5.00"
              /\ request.campaignId = "sympla-geral-2024"

C30_Witness ==
  \E r \in Reqs :
    /\ reqs[r].pc = "done"
    /\ IsEvent(reqs[r], "order.approved")
    /\ HasData(reqs[r])
    /\ reqs[r].gw.state = "ok"
    /\ reqs[r].payload.data.order_identifier = "SPL-2"
    /\ reqs[r].payload.data.total_order_amount = "100.00"
    /\ reqs[r].gw.request.sourceOrderId = "SPL-2"
    /\ reqs[r].gw.request.donationValue = "5.00"

\* res.json(body): the fields of the 401 body that reach the sender. JSON
\* leaves out a field whose value is undefined.
SentFields401(body) ==
  {"error"} \cup {f \in {"received", "origin"} : body[f] # NoHeader}

\* ------------------------------------------------------------------------
\* C31: on authentication failure the 401 response body consists of the
\* error field alone ({error: 'Invalid signature'}), for a missing header
\* and for a present but invalid header alike; it carries no other data from
\* the request.
\* ------------------------------------------------------------------------
C31_ErrorFieldAlone ==
  \A r \in Reqs :
    (reqs[r].resp # <<>> /\ reqs[r].resp[1].status = 401)
    => /\ reqs[r].resp[1].body.error = "Invalid signature"
       /\ SentFields401(reqs[r].resp[1].body) = {"error"}

\* ------------------------------------------------------------------------
\* The handler with a gateway call that settles: the client's timeout makes
\* every call of createDonation return or fail, and the continuation of the
\* awaiting handler is then run
\* ------------------------------------------------------------------------
GatewaySettles(r) ==
  \E outcome \in CreateDonationOutcomes(apiUrl) : GatewayReturns(r, outcome)

SpecLive == Spec /\ \A r \in Reqs : WF_vars(GatewaySettles(r))

\* ------------------------------------------------------------------------
\* C32: every webhook request receives exactly one response, with status
\* 200, 401 or 500, provided the gateway call eventually returns, fails or
\* times out: no request is left unanswered and none is answered twice.
\* ------------------------------------------------------------------------
C32_ExactlyOneResponse ==
  /\ [](\A r \in Reqs :
          /\ Len(reqs[r].resp) <= 1
          /\ reqs[r].pc = "done" <=> Len(reqs[r].resp) = 1
          /\ reqs[r].resp # <<>> => reqs[r].resp[1].status \in {200, 401, 500})
  /\ [][\A r \in Reqs : reqs[r].resp # <<>> => reqs'[r].resp = reqs[r].resp]_vars
  /\ \A r \in Reqs :
       reqs[r].pc # "idle" ~> (reqs[r].pc = "done" /\ Len(reqs[r].resp) = 1)

\* a request that waited for the gateway while the clock advanced has been
\* answered 200
C32_Witness ==
  \E r \in Reqs :
    /\ reqs[r].pc = "done"
    /\ reqs[r].gw.state \in {"ok", "failed"}
    /\ Len(reqs[r].resp) = 1
    /\ reqs[r].resp[1].status = 200
    /\ heap[reqs[r].ref].created_at < heap[reqs[r].ref].updated_at

\* the request has been acknowledged with 200
Acknowledged(rec) == rec.resp # <<>> /\ rec.resp[1].status = 200

\* ------------------------------------------------------------------------
\* C33: for an order.approved event the 200 acknowledgment is sent only
\* after the gateway call made for that event has returned or failed and the
\* resulting status (COMPLETED or DECLINED) has been written to the store;
\* the acknowledgment never precedes the gateway result.
\* ------------------------------------------------------------------------
C33_AckAfterGateway ==
  /\ [](\A r \in Reqs :
          /\ (IsEvent(reqs[r], "order.approved") /\ Acknowledged(reqs[r]))
             => /\ reqs[r].calls = 1
                /\ reqs[r].gw.state \in {"ok", "failed"}
          /\ reqs[r].gw.state = "pending" => reqs[r].resp = <<>>)
  /\ [][\A r \in Reqs :
          (/\ IsEvent(reqs'[r], "order.approved")
           /\ ~Acknowledged(reqs[r])
           /\ Acknowledged(reqs'[r]))
          => /\ reqs[r].gw.state = "pending"
             /\ heap'[reqs[r].ref].status =
                  (IF reqs'[r].gw.state = "ok" THEN "COMPLETED"
                   ELSE "DECLINED")]_vars

\* an approval was acknowledged at a later instant than the one at which
\* its gateway call was made, with its attempt COMPLETED
C33_Witness ==
  \E r \in Reqs :
    /\ IsEvent(reqs[r], "order.approved")
    /\ Acknowledged(reqs[r])
    /\ reqs[r].gw.state = "ok"
    /\ heap[reqs[r].ref].status = "COMPLETED"
    /\ heap[reqs[r].ref].created_at < reqs[r].resp[1].body.timestamp

\* a handler is suspended at its await of the gateway
InFlight(r) == reqs[r].pc = "awaitGateway"

\* ------------------------------------------------------------------------
\* C34: whenever no webhook request is in flight, no stored attempt has
\* status PENDING_USER_ACTION: PENDING_USER_ACTION is observable in the
\* store only while an order.approved handler is awaiting the gateway, and
\* every such handler eventually replaces it with COMPLETED or DECLINED.
\* ------------------------------------------------------------------------
C34_PendingOnlyInFlight ==
  /\ [](\A k \in Keys :
          (Stored(k) /\ Attempt(k).status = "PENDING_USER_ACTION")
          => \E r \in Reqs :
               /\ InFlight(r)
               /\ IsEvent(reqs[r], "order.approved")
               /\ reqs[r].ref = donationAttempts[k])
  /\ []((\A r \in Reqs : ~InFlight(r))
        => \A i \in 1..Len(heap) : heap[i].status # "PENDING_USER_ACTION")
  /\ \A r \in Reqs :
       InFlight(r) ~> /\ reqs[r].pc = "done"
                      /\ reqs[r].ref # NoRef
                      /\ heap[reqs[r].ref].status \in {"COMPLETED", "DECLINED"}

\* nothing is in flight, and the store holds a COMPLETED and a DECLINED
\* attempt, each written by the approval that created it
C34_Witness ==
  /\ \A r \in Reqs : ~InFlight(r)
  /\ \E r1, r2 \in Reqs :
       /\ reqs[r1].gw.state = "ok" /\ reqs[r2].gw.state = "failed"
       /\ Stored(KeyOf(reqs[r1])) /\ Stored(KeyOf(reqs[r2]))
       /\ Attempt(KeyOf(reqs[r1])).status = "COMPLETED"
       /\ Attempt(KeyOf(reqs[r2])).status = "DECLINED"

\* the fields of an attempt other than status and updated_at
KeptFields ==
  {"id", "sympla_order_id", "sympla_event_id", "donation_token",
   "created_at", "donor_name", "donor_email", "event_name", "order_amount"}

\* ------------------------------------------------------------------------
\* C35: an order.cancelled or order.refunded event for an order identifier
\* that already has a stored attempt changes only that attempt's status and
\* updated_at: its id, token, created_at, event identifier and donor name,
\* donor email, event name and order amount stay as they were (the data
\* carried by the event is not applied), and no second record is added.
\* ------------------------------------------------------------------------
C35_EndedChangesStatusOnly ==
  [][\A r \in Reqs :
       (/\ Acts(r) /\ HasData(reqs'[r])
        /\ reqs'[r].payload.event \in {"order.cancelled", "order.refunded"}
        /\ Stored(KeyOf(reqs'[r])))
       => LET k == KeyOf(reqs'[r])
              ref == donationAttempts[k]
          IN  /\ donationAttempts' = donationAttempts
              /\ Len(heap') = Len(heap)
              /\ \A i \in 1..Len(heap) : i # ref => heap'[i] = heap[i]
              /\ \A f \in KeptFields : heap'[ref][f] = heap[ref][f]
              /\ DOMAIN heap'[ref] = DOMAIN heap[ref]
              /\ heap'[ref].status =
                   (IF reqs'[r].payload.event = "order.cancelled"
                      THEN "CANCELLED" ELSE "REFUNDED")
              /\ heap'[ref].updated_at = now
              /\ Len(getDonations') = Len(getDonations)]_vars

\* an order.cancelled that carries other data than the approval of the same
\* order found its attempt: the attempt is CANCELLED and keeps the event and
\* the donor of the approval
C35_Witness ==
  \E r1, r2 \in Reqs :
    /\ IsEvent(reqs[r1], "order.approved") /\ HasData(reqs[r1])
    /\ IsEvent(reqs[r2], "order.cancelled") /\ HasData(reqs[r2])
    /\ reqs[r1].pc = "done" /\ reqs[r2].pc = "done"
    /\ reqs[r2].ref = reqs[r1].ref
    /\ reqs[r2].payload.data.event_id # reqs[r1].payload.data.event_id
    /\ heap[reqs[r2].ref].status = "CANCELLED"
    /\ heap[reqs[r2].ref].sympla_event_id = reqs[r1].payload.data.event_id
    /\ heap[reqs[r2].ref].donor_email = reqs[r1].payload.data.buyer_email
    /\ Len(heap) = 1

\* the attempt was not created by an approval: no order.approved handler
\* refers to it
CreatedWithoutApproval(ref) ==
  \A q \in Reqs :
    IsEvent(reqs[q], "order.approved") => reqs[q].ref # ref

\* validateToken of the handler's generator accepts the token at instant t
\* and returns the identifiers of the attempt
TokenOfAttempt(attempt, t) ==
  LET payload == validateToken(WebhookSecret, attempt.donation_token, t)
  IN  /\ payload # Null
      /\ payload.orderId = attempt.sympla_order_id
      /\ payload.eventId = attempt.sympla_event_id

\* ------------------------------------------------------------------------
\* C36: in every reachable state, the donation_token of every stored attempt
\* is either empty or a token that validateToken (keyed with the handler's
\* secret, before expiry) accepts and that decodes to that same attempt's
\* order identifier and event identifier; attempts created by a cancel or
\* refund event without prior approval carry an empty token.
\* ------------------------------------------------------------------------
C36_TokenEmptyOrValid ==
  /\ \A k \in Keys :
       Stored(k) => \/ Attempt(k).donation_token = <<>>
                    \/ TokenOfAttempt(Attempt(k), now)
  /\ \A i \in 1..Len(heap) :
       CreatedWithoutApproval(i) => heap[i].donation_token = <<>>

\* the header value after removal of the prefix and the surrounding white
\* space, in lower case
NormalisedHeader(h) ==
  LET core == Trim(StripPrefix(h))
  IN  [i \in 1..Len(core) |-> ToLowerChar(core[i])]

\* ------------------------------------------------------------------------
\* C37: validateSignature returns true only if the header value, after
\* removal of the optional sha256= prefix and surrounding white space, is
\* exactly the expected hex digest (hex letter case aside): a correct digest
\* followed by any extra characters is rejected.
\* ------------------------------------------------------------------------
C37_ExactDigestOnly ==
  (Returned("validateSignature") /\ call.result = "true")
  => /\ call.signature # NoHeader
     /\ NormalisedHeader(call.signature) = HmacHex(call.secret, call.payload)

\* the payload has not the shape of an event: no data object, or a data
\* object without an order identifier
Misshapen(rec) ==
  /\ rec.payload # NoPayload
  /\ \/ rec.payload.data = NoData
     \/ rec.payload.data.order_identifier = Undefined

\* ------------------------------------------------------------------------
\* C38: an authenticated body that is valid JSON but does not have the
\* expected event shape (no data object, or a data object without an order
\* identifier) for an order.approved, order.cancelled or order.refunded
\* event is answered 500, adds no entry to the attempt store and causes no
\* gateway call.
\* ------------------------------------------------------------------------
C38_MisshapenIs500 ==
  [][\A r \in Reqs :
       (/\ Starts(r)
        /\ SignatureVerifies(reqs'[r].input)
        /\ Misshapen(reqs'[r])
        /\ reqs'[r].payload.event \in
             {"order.approved", "order.cancelled", "order.refunded"})
       => /\ reqs'[r].pc = "done"
          /\ reqs'[r].resp = <<Response500>>
          /\ reqs'[r].calls = 0
          /\ heap' = heap
          /\ donationAttempts' = donationAttempts]_vars

====
